---- MODULE Spec2Model ----
(***************************************************************************)
(* The Evolution simulation of src/candied: the day loop of                *)
(* Evolution.step, the staged scheduler it drives, the creatures' compete  *)
(* tick and the survival / reproduction rules of Evolution.evolve.         *)
(*                                                                         *)
(* Reals are scaled to integers: a penalty is kept in millionths (so that  *)
(* 0.25 is 250000 and the threshold 0.999999 is 999999), energies and      *)
(* genes are integers.  Positions are not kept for the agents of a        *)
(* simulation: what a tick senses and whether it reaches the sensed candy  *)
(* are inputs of the tick.  Creature.move is followed on the torus for one *)
(* creature and the candy it senses (SpecMove), with whole coordinates and *)
(* angles in units of pi/2; evolve() is applied to parents whose genes     *)
(* differ under SpecCross.                                                 *)
(***************************************************************************)
EXTENDS Integers, Sequences, FiniteSets, TLC

\* ------------------------------------------------------------------ bounds
MaxCreatures == 2      \* n_creatures ranges over 0..MaxCreatures
MaxDays == 5           \* max_days ranges over 1..MaxDays
MaxSpawned == 4        \* n_candies * (max_days - 1), the candies of the full days
CompeteStages == 3     \* compete stages of a day (the source fixes 100)
ExtraCalls == 1        \* step() calls made after running became false

\* --------------------------------------------------------------- constants
Unit == 1000000            \* one, in millionths
PenaltyStep == 250000      \* 0.25
PenaltyLimit == 999999     \* 0.999999
None == -1                 \* Python's None in the moment_of_* fields
ViewCoefficient == 5       \* FE = 5 * view_range

\* inputs of the constructor and of the random draws
EnergyValues == {60}
SpeedValues == {2}
FocusValues == {1}         \* focus_angle in units of pi/2
ViewValues == {1}
MutValues == {1}
MixDen == 2                \* a mix is a multiple of 1 / MixDen
Mixes == {0, 1}            \* mix of a crossover, uniform(0, 1): 0 and 1/2
Gauss == {0}               \* gauss(0, 1) draws of mutate

VARIABLES
    day,            \* Evolution.day
    running,        \* Evolution.running
    last_day,       \* Evolution.last_day (max_days)
    n_creatures,    \* Evolution.n_creatures
    n_candies,      \* Evolution.n_candies
    max_energy,     \* Evolution.max_energy
    current_id,     \* Model.current_id, the id allocator
    agents,         \* unique_id -> the agent object's fields
    schedule,       \* keys of schedule._agents: the live agent set
    space,          \* agents held by the ContinuousSpace
    model_vars,     \* datacollector.model_vars, one row per collect()
    pc,             \* where Evolution.step is
    agent_keys,     \* StagedActivation.step: the shuffled keys of the day
    stage,          \* index of the running stage in model_stages
    idx,            \* index in agent_keys of the next agent of the stage
    streak,         \* history: consecutive one-candy days of a creature
    model_collector_result,   \* run key -> the table its run collected
    variable_params,          \* the variable parameters of the batch
    ignore_dead_populations,  \* the option of avg_model_results
    avg_model_data,           \* what avg_model_results returned
    draws,          \* history: the random draws of the evolve() call made last
    mover,          \* a creature with its position: pos, speed and the genes move() reads
    sensed,         \* the position of the candy find_candy() returned, or NoFood
    moved           \* history: the displacement of the move() made last

vars == <<day, running, last_day, n_creatures, n_candies, max_energy,
          current_id, agents, schedule, space, model_vars, pc, agent_keys,
          stage, idx, streak, model_collector_result, variable_params,
          ignore_dead_populations, avg_model_data, draws, mover, sensed,
          moved>>

\* the variables of the batch run, which a simulation leaves alone
batch_vars ==
    <<model_collector_result, variable_params, ignore_dead_populations,
      avg_model_data>>

\* no evolve() call has drawn anything
NoDraws == [parents |-> <<>>, pairs |-> <<>>]

\* the variables of the positions, which are not kept for the agents of a
\* simulation
geometry_vars == <<mover, sensed, moved>>

\* Python's None as the food of move()
NoFood == <<>>

\* no creature is followed on the plane
NoGeometry ==
    /\ mover = [done_steps |-> 0]
    /\ sensed = NoFood
    /\ moved = [food |-> FALSE]

\* no batch has been run
NoBatch ==
    /\ model_collector_result = <<>>
    /\ variable_params = <<>>
    /\ ignore_dead_populations = TRUE
    /\ avg_model_data = [status |-> "pending"]

\* ------------------------------------------------------------------ agents
IsCandy(a) == agents[a].agent_type = "Candy"

\* Evolution.creatures / Evolution.candies: filters over schedule.agents
CreaturesOf(ag, sch) == {a \in sch : ag[a].agent_type = "Creature"}
CandiesOf(ag, sch) == {a \in sch : ag[a].agent_type = "Candy"}
creatures == CreaturesOf(agents, schedule)
candies == CandiesOf(agents, schedule)

\* Creature.__init__ with the four genes given
Creature(speed, focus_angle, view_range, mut_rate, energy) ==
    [agent_type |-> "Creature",
     energy |-> energy,
     eaten_candies |-> 0,
     penalty |-> 0,
     speed |-> speed,
     mut_rate |-> mut_rate,
     focus_angle |-> focus_angle,
     view_range |-> view_range,
     done_steps |-> 0,
     energy_used_for_movement |-> 0,
     energy_spent_on_view_range |-> 0,
     energy_spent_on_focus_angle |-> 0,
     energy_lost |-> 0,
     energy_of_happiness |-> 0,
     moment_of_first_consumption |-> None,
     moment_of_second_consumption |-> None,
     age |-> 0,
     made_children |-> 0]

\* Candy.__init__
Candy == [agent_type |-> "Candy", eaten |-> FALSE]

\* the genomes random.uniform draws for a seeded creature
SeedCreatures(energy) ==
    {Creature(s, f, v, m, energy) :
        s \in SpeedValues, f \in FocusValues, v \in ViewValues, m \in MutValues}

\* random.shuffle of a collection: every order of its elements
Shuffle(S) ==
    {f \in [1..Cardinality(S) -> S] :
        \A i, j \in 1..Cardinality(S) : i # j => f[i] # f[j]}

\* ------------------------------------------------------------- constructor
\* the keyword arguments Evolution.__init__ accepts
ConstructorOptions ==
    {"height", "width", "n_creatures", "n_candies", "max_days", "energy",
     "mut_rate", "speed", "view_range"}

\* the constructor's n_creatures, n_candies and max_days: every combination
\* within the bounds
Parameters ==
    {p \in (0..MaxCreatures) \X (0..MaxSpawned) \X (1..MaxDays) :
        p[2] * (p[3] - 1) <= MaxSpawned}

Init ==
    /\ day = 0
    /\ running = TRUE
    /\ \E p \in Parameters :
          /\ n_creatures = p[1]
          /\ n_candies = p[2]
          /\ last_day = p[3]
    /\ max_energy \in EnergyValues
    /\ current_id = n_creatures
    /\ agents \in [1..n_creatures -> SeedCreatures(max_energy)]
    /\ schedule = 1..n_creatures
    /\ space = 1..n_creatures
    /\ model_vars = <<>>
    /\ pc = "idle"
    /\ agent_keys = <<>>
    /\ stage = 0
    /\ idx = 0
    /\ streak = [a \in 1..n_creatures |-> 0]
    /\ NoBatch
    /\ draws = NoDraws
    /\ NoGeometry

\* --------------------------------------------------------- data collection
RECURSIVE Sum(_, _)
Sum(f, S) ==
    IF S = {} THEN 0
    ELSE LET a == CHOOSE x \in S : TRUE IN f[a] + Sum(f, S \ {a})

\* count_eaters with the comparison turned into "at least"
count_eatersAtLeast(ag, sch, i) ==
    Cardinality({a \in CreaturesOf(ag, sch) : ag[a].eaten_candies >= i})

\* Evolution.count_eaters
count_eaters(ag, sch, i) ==
    Cardinality({a \in CreaturesOf(ag, sch) : ag[a].eaten_candies = i})

\* the reporters divide by len(creatures): with no creature alive the first of
\* them, "Energy", raises ZeroDivisionError and collect() adds no row
CollectRaises(ag, sch) == CreaturesOf(ag, sch) = {}

\* one row of model_reporters; a mean is kept as the integer part of the quotient
ModelRow(ag, sch) ==
    LET cs == CreaturesOf(ag, sch)
        n == Cardinality(cs)
    IN [Energy |-> Sum([a \in cs |-> ag[a].energy], cs) \div n,
        Speed |-> Sum([a \in cs |-> ag[a].speed], cs) \div n,
        View |-> Sum([a \in cs |-> ag[a].view_range], cs) \div n,
        Focus |-> Sum([a \in cs |-> ag[a].focus_angle], cs) \div n,
        Mut |-> Sum([a \in cs |-> ag[a].mut_rate], cs) \div n,
        Creatures |-> n,
        Candies |-> Cardinality(CandiesOf(ag, sch)),
        ZeroEaters |-> count_eaters(ag, sch, 0),
        OneEaters |-> count_eaters(ag, sch, 1),
        TwoEaters |-> count_eaters(ag, sch, 2)]

\* ---------------------------------------------------------- Evolution.step
\* model_stages: the preparation stage, then the compete stages
model_stages ==
    <<"stage_0_prepare_for_new_day">> \o [i \in 1..CompeteStages |-> "stage_1_compete"]

\* step() up to the scheduler: the day counter, the day's candies, collect(),
\* and the halting branch.  schedule.step() shuffles the agent keys once; the
\* handlers of a Candy are no-ops, so agent_keys keeps the creatures' keys.
StepBegin ==
    /\ pc = "idle"
    /\ day < last_day + ExtraCalls
    /\ LET new == (current_id + 1)..(current_id + n_candies)
           ag == [a \in DOMAIN agents \cup new |->
                     IF a \in new THEN Candy ELSE agents[a]]
           sch == schedule \cup new
       IN /\ day' = day + 1
          /\ current_id' = current_id + n_candies
          /\ agents' = ag
          /\ schedule' = sch
          /\ space' = space \cup new
          /\ IF CollectRaises(ag, sch)
                THEN /\ pc' = "raised"
                     /\ UNCHANGED <<model_vars, running, agent_keys, stage, idx>>
                ELSE /\ model_vars' = Append(model_vars, ModelRow(ag, sch))
                     /\ IF day' < last_day
                           THEN /\ pc' = "stage"
                                /\ agent_keys' \in Shuffle(CreaturesOf(ag, sch))
                                /\ stage' = 1
                                /\ idx' = 1
                                /\ UNCHANGED running
                           ELSE /\ running' = FALSE
                                /\ pc' = "idle"
                                /\ UNCHANGED <<agent_keys, stage, idx>>
    /\ UNCHANGED <<last_day, n_creatures, n_candies, max_energy, streak>>
    /\ UNCHANGED <<batch_vars, draws, geometry_vars>>

\* ------------------------------------------------------------------ Creature
\* 1 / tan(focus_angle / 2), focus_angle in units of pi/2: cot(pi/4) = 1,
\* cot(pi/2) = 0, cot(3 pi/4) = -1; a zero angle gives numpy's inf
Huge == 1000000000
CotHalf(f) ==
    IF f % 4 = 1 THEN 1
    ELSE IF f % 4 = 2 THEN 0
    ELSE IF f % 4 = 3 THEN -1
    ELSE Huge

\* Creature.expend_energy: the three terms under the names the source gives them
KE(c) == c.speed * c.speed
VE(c) == CotHalf(c.focus_angle)
FE(c) == ViewCoefficient * c.view_range
dE(c) == KE(c) + VE(c) + FE(c)

\* expend_energy(apply=True) that leaves the kinetic term out of its bucket
expend_energy_unbooked(c) ==
    [c EXCEPT !.energy = @ - dE(c),
              !.energy_spent_on_focus_angle = @ + FE(c),
              !.energy_spent_on_view_range = @ + VE(c)]

\* expend_energy(apply=True)
expend_energy(c) ==
    [c EXCEPT !.energy = @ - dE(c),
              !.energy_used_for_movement = @ + KE(c),
              !.energy_spent_on_focus_angle = @ + FE(c),
              !.energy_spent_on_view_range = @ + VE(c)]

\* Creature.find_candy: the nearest of the candies the space holds within
\* view_range that are not eaten, or None.  Which candy is in range (if any) is
\* an input of the tick; the candidates are what get_neighbors can return.
find_candy == {None} \cup {a \in space : IsCandy(a) /\ ~agents[a].eaten}

\* Creature.move: the position is not kept; done_steps counts the move
move(c) == [c EXCEPT !.done_steps = @ + 1]

\* Creature.eat_candy, the creature's side.  near: distance < speed * 0.5
Eats(c, food, near) == food # None /\ near /\ c.speed > 0

\* eat_candy writing every consumption to moment_of_first_consumption
eat_candy_first_moment(c, food, near) ==
    IF Eats(c, food, near)
      THEN [c EXCEPT !.eaten_candies = @ + 1,
                     !.moment_of_first_consumption = c.done_steps]
      ELSE c

eat_candy(c, food, near) ==
    IF Eats(c, food, near)
      THEN IF c.moment_of_first_consumption = None \/ c.moment_of_first_consumption = 0
             THEN [c EXCEPT !.eaten_candies = @ + 1,
                            !.moment_of_first_consumption = c.done_steps]
             ELSE [c EXCEPT !.eaten_candies = @ + 1,
                            !.moment_of_second_consumption = c.done_steps]
      ELSE c

\* the guard of Creature.step with the comparison off by one
ActiveUpToTwo(c) == c.energy > dE(c) /\ c.eaten_candies <= 2

\* the guard of Creature.step without the comparison of the energy
ActiveWhileHungry(c) == c.eaten_candies < 2

\* the guard of Creature.step with the energy compared by >=
ActiveAtCost(c) == c.energy >= dE(c) /\ c.eaten_candies < 2

\* the guard of Creature.step
Active(c) == c.energy > dE(c) /\ c.eaten_candies < 2

\* stage_0_prepare_for_new_day with the penalty left out of the energy
stage_0_at_full_energy(c) ==
    [c EXCEPT !.energy = max_energy,
              !.eaten_candies = 0,
              !.done_steps = 0,
              !.energy_used_for_movement = 0,
              !.energy_spent_on_view_range = 0,
              !.energy_spent_on_focus_angle = 0,
              !.energy_lost = 0,
              !.energy_of_happiness = 0,
              !.moment_of_first_consumption = None,
              !.moment_of_second_consumption = None]

\* Creature.stage_0_prepare_for_new_day
stage_0_prepare_for_new_day(c) ==
    [c EXCEPT !.energy = ((Unit - c.penalty) * max_energy) \div Unit,
              !.eaten_candies = 0,
              !.done_steps = 0,
              !.energy_used_for_movement = 0,
              !.energy_spent_on_view_range = 0,
              !.energy_spent_on_focus_angle = 0,
              !.energy_lost = 0,
              !.energy_of_happiness = 0,
              !.moment_of_first_consumption = None,
              !.moment_of_second_consumption = None]

\* Creature.step: the creature after its tick
step(c, food, near) ==
    IF Active(c) THEN eat_candy(move(expend_energy(c)), food, near) ELSE c

\* Creature.stage_1_compete: the agents after creature a's tick; the candy it
\* eats gets eaten = True
stage_1_compete(a, food, near) ==
    [b \in DOMAIN agents |->
        IF b = a THEN step(agents[a], food, near)
        ELSE IF b = food /\ Active(agents[a]) /\ Eats(agents[a], food, near)
               THEN [agents[b] EXCEPT !.eaten = TRUE]
               ELSE agents[b]]

\* --------------------------------------------------- StagedActivation.step
\* after an agent's handler: the next agent, the next stage, or evolve()
Advance ==
    IF idx < Len(agent_keys)
      THEN /\ idx' = idx + 1
           /\ UNCHANGED <<stage, pc, agent_keys>>
      ELSE IF stage < Len(model_stages)
             THEN /\ idx' = 1
                  /\ stage' = stage + 1
                  /\ UNCHANGED <<pc, agent_keys>>
             ELSE /\ idx' = 0
                  /\ stage' = 0
                  /\ agent_keys' = <<>>
                  /\ pc' = "evolve"

Prepare ==
    /\ pc = "stage"
    /\ model_stages[stage] = "stage_0_prepare_for_new_day"
    /\ agents' = [agents EXCEPT ![agent_keys[idx]] = stage_0_prepare_for_new_day(@)]
    /\ Advance
    /\ UNCHANGED <<day, running, last_day, n_creatures, n_candies, max_energy,
                   current_id, schedule, space, model_vars, streak>>
    /\ UNCHANGED <<batch_vars, draws, geometry_vars>>

Compete ==
    /\ pc = "stage"
    /\ model_stages[stage] = "stage_1_compete"
    /\ \E food \in find_candy, near \in BOOLEAN :
          agents' = stage_1_compete(agent_keys[idx], food, near)
    /\ Advance
    /\ UNCHANGED <<day, running, last_day, n_creatures, n_candies, max_energy,
                   current_id, schedule, space, model_vars, streak>>
    /\ UNCHANGED <<batch_vars, draws, geometry_vars>>

\* -------------------------------------------------------- Evolution.evolve
\* the first loop of evolve() without the reset of a parent's penalty
JudgeNoReset(c) ==
    IF c.eaten_candies = 1 THEN [c EXCEPT !.penalty = @ + PenaltyStep] ELSE c

\* the creature after the first loop of evolve()
Judge(c) ==
    IF c.eaten_candies = 0 THEN c
    ELSE IF c.eaten_candies = 1 THEN [c EXCEPT !.penalty = @ + PenaltyStep]
    ELSE [c EXCEPT !.penalty = 0]

\* the removals with the penalty compared to 1 strictly
RemovedAboveOne(c) ==
    \/ c.eaten_candies = 0
    \/ c.eaten_candies = 1 /\ c.penalty + PenaltyStep > Unit

\* the removals without the death of the creatures that ate nothing
RemovedByPenalty(c) ==
    c.eaten_candies = 1 /\ c.penalty + PenaltyStep >= PenaltyLimit

\* schedule.remove(creature) in the first loop
Removed(c) ==
    \/ c.eaten_candies = 0
    \/ c.eaten_candies = 1 /\ Judge(c).penalty >= PenaltyLimit

\* a removed creature stays in the space; nothing reads its fields again, and
\* the model keeps its type only
Unscheduled == [agent_type |-> "Creature"]

\* parents.append(creature): the else branch
IsParent(c) == c.eaten_candies # 0 /\ c.eaten_candies # 1

\* `gene or random.uniform(...)` of Creature.__init__: 0 counts as not given
Or(gene, drawn) == IF gene = 0 THEN drawn ELSE gene

\* Creature.mutate; g: the three gauss(0, 1) draws
mutate(c, g) ==
    [c EXCEPT !.focus_angle = @ + c.mut_rate * g[1],
              !.view_range = @ + c.mut_rate * g[2],
              !.speed = @ + c.mut_rate * g[3]]

\* mix * a + (1 - mix) * b, mix = m / MixDen
Blend(m, a, b) == (m * a + (MixDen - m) * b) \div MixDen
BlendExact(m, a, b) == (m * a + (MixDen - m) * b) % MixDen = 0

\* one offspring of crossover(): p1's genes weighted mix, p2's 1 - mix
Offspring(p1, p2, m, g, r) ==
    mutate(Creature(Or(Blend(m, p1.speed, p2.speed), r.speed),
                    Or(Blend(m, p1.focus_angle, p2.focus_angle), r.focus_angle),
                    Or(Blend(m, p1.view_range, p2.view_range), r.view_range),
                    Or(Blend(m, p1.mut_rate, p2.mut_rate), r.mut_rate),
                    max_energy), g)

\* the clone of a single parent
Clone(p, g, r) ==
    mutate(Creature(Or(p.speed, r.speed),
                    Or(p.focus_angle, r.focus_angle),
                    Or(p.view_range, r.view_range),
                    Or(p.mut_rate, r.mut_rate),
                    max_energy), g)

\* the crossover() calls without the one for the last parent of an odd count
PairsOfConsecutive(p, partner) ==
    [i \in 1..(Len(p) \div 2) |-> <<p[2 * i - 1], p[2 * i]>>]

\* the crossover() calls of evolve() for the shuffled parents p: consecutive
\* pairs, and for an odd count the last parent with parents[:-1][partner]
Pairs(p, partner) ==
    [i \in 1..(Len(p) \div 2) |-> <<p[2 * i - 1], p[2 * i]>>]
    \o (IF Len(p) % 2 = 1 THEN <<<<p[Len(p)], p[partner]>>>> ELSE <<>>)

\* the creatures evolve() adds, in the order of their ids
NewCreatures(ag, p, partner, m, g, r) ==
    IF Len(p) = 0 THEN <<>>
    ELSE IF Len(p) = 1 THEN <<Clone(ag[p[1]], g, r)>>
    ELSE LET pairs == Pairs(p, partner)
         IN [i \in 1..(2 * Len(pairs)) |->
               LET pair == pairs[(i + 1) \div 2]
               IN IF i % 2 = 1
                    THEN Offspring(ag[pair[1]], ag[pair[2]], m, g, r)
                    ELSE Offspring(ag[pair[2]], ag[pair[1]], m, g, r)]

\* random.choice over all the parents, the last one included
PartnersAmongAll(p) == 1..Len(p)

\* random.choice(parents[:-1]), drawn when the count is odd and above 1
Partners(p) == IF Len(p) > 1 /\ Len(p) % 2 = 1 THEN 1..(Len(p) - 1) ELSE {1}

\* the mixes whose blends of the parents' genes are whole numbers of the model
ExactMixes(ag, ps) ==
    {m \in Mixes : \A a, b \in ps :
        /\ BlendExact(m, ag[a].speed, ag[b].speed)
        /\ BlendExact(m, ag[a].focus_angle, ag[b].focus_angle)
        /\ BlendExact(m, ag[a].view_range, ag[b].view_range)
        /\ BlendExact(m, ag[a].mut_rate, ag[b].mut_rate)}

\* evolve(): judge every creature, shuffle the parents, add the offspring.
\* One mix, one triple of gauss draws and one genome of defaults are drawn per
\* call and used for every offspring of the call; the gauss draws come from
\* `gauss` and the defaults of Creature.__init__ from `defaults`.
evolve(gauss, defaults) ==
    /\ pc = "evolve"
    /\ LET judged == [a \in DOMAIN agents |->
                         IF a \in creatures THEN Judge(agents[a]) ELSE agents[a]]
           removed == {a \in creatures : Removed(agents[a])}
           parents == {a \in creatures : IsParent(agents[a])}
       IN \E p \in Shuffle(parents) :
          \E partner \in Partners(p) :
          \E m \in ExactMixes(agents, parents) :
          \E g \in gauss \X gauss \X gauss :
          \E r \in defaults :
            LET born == NewCreatures(judged, p, partner, m, g, r)
                new == (current_id + 1)..(current_id + Len(born))
            IN /\ agents' = [a \in DOMAIN agents \cup new |->
                                IF a \in new THEN born[a - current_id]
                                ELSE judged[a]]
               /\ schedule' = (schedule \ removed) \cup new
               /\ space' = space \cup new
               /\ current_id' = current_id + Len(born)
               /\ streak' = [a \in (creatures \ removed) \cup new |->
                                IF a \in new \/ agents[a].eaten_candies # 1 THEN 0
                                ELSE streak[a] + 1]
               /\ draws' = [parents |-> p,
                            pairs |-> IF Len(p) > 1 THEN Pairs(p, partner)
                                      ELSE <<>>,
                            mix |-> m, gauss |-> g, defaults |-> r]
    /\ pc' = "remove_candies"
    /\ UNCHANGED <<day, running, last_day, n_creatures, n_candies, max_energy,
                   model_vars, agent_keys, stage, idx>>
    /\ UNCHANGED <<batch_vars, geometry_vars>>

Evolve == evolve(Gauss, SeedCreatures(max_energy))

\* "Remove old candies", the last loop of step()
RemoveCandies ==
    /\ pc = "remove_candies"
    /\ schedule' = schedule \ candies
    /\ pc' = "idle"
    /\ draws' = NoDraws
    /\ UNCHANGED <<day, running, last_day, n_creatures, n_candies, max_energy,
                   current_id, agents, space, model_vars, agent_keys, stage, idx,
                   streak>>
    /\ UNCHANGED <<batch_vars, geometry_vars>>

Next == StepBegin \/ Prepare \/ Compete \/ Evolve \/ RemoveCandies

Spec == Init /\ [][Next]_vars

\* ------------------------------------------------- evolve() on day-1 outcomes
MaxPopulation == 4     \* creatures of the populations evolve() is applied to

\* a seeded creature after the stages of a day in which it reaches a candy in
\* each of its first `eats` ticks
RECURSIVE Ticks(_, _, _)
Ticks(c, t, eats) ==
    IF t > CompeteStages THEN c
    ELSE Ticks(step(c, 0, t <= eats), t + 1, eats)

DayEnd(c, eats) == Ticks(stage_0_prepare_for_new_day(c), 1, eats)

\* the states in which step() calls evolve() on day 1: n creatures, two candies
\* a creature, every creature having eaten 0, 1 or 2 of them
InitEvolve ==
    /\ day = 1
    /\ running = TRUE
    /\ last_day = 2
    /\ n_creatures \in 0..MaxPopulation
    /\ n_candies = 2 * n_creatures
    /\ max_energy \in EnergyValues
    /\ current_id = n_creatures + n_candies
    /\ \E eats \in [1..n_creatures -> 0..2] :
       \E seed \in SeedCreatures(max_energy) :
          LET eaten == Sum(eats, 1..n_creatures)
              all == 1..(n_creatures + n_candies)
              start == [a \in all |-> IF a <= n_creatures THEN seed ELSE Candy]
          IN /\ agents = [a \in all |->
                            IF a <= n_creatures THEN DayEnd(seed, eats[a])
                            ELSE [Candy EXCEPT !.eaten = (a - n_creatures <= eaten)]]
             /\ model_vars = IF n_creatures = 0 THEN <<>> ELSE <<ModelRow(start, all)>>
    /\ schedule = 1..(n_creatures + n_candies)
    /\ space = 1..(n_creatures + n_candies)
    /\ pc = "evolve"
    /\ agent_keys = <<>>
    /\ stage = 0
    /\ idx = 0
    /\ streak = [a \in 1..n_creatures |-> 0]
    /\ NoBatch
    /\ draws = NoDraws
    /\ NoGeometry

NextEvolve == Evolve \/ RemoveCandies

SpecEvolve == InitEvolve /\ [][NextEvolve]_vars

\* ------------------------------------------- evolve() on parents that differ
MaxParents == 2        \* creatures of the populations of InitCross

\* the genes of the creatures of InitCross: values mutation can lead to
ParentSpeeds == {2}
ParentFocus == {-1, 1}
ParentViews == {-1, 1}
ParentMuts == {0, 1, 2}
GaussDraws == {0, 1}       \* gauss(0, 1) draws of mutate under SpecCross

ParentCreatures(energy) ==
    {Creature(s, f, v, m, energy) :
        s \in ParentSpeeds, f \in ParentFocus, v \in ParentViews,
        m \in ParentMuts}

\* the states in which step() calls evolve() on a population whose creatures
\* have genes of their own and have eaten two candies each
InitCross ==
    /\ day = 1
    /\ running = TRUE
    /\ last_day = 2
    /\ n_creatures \in 1..MaxParents
    /\ n_candies = 2 * n_creatures
    /\ max_energy \in EnergyValues
    /\ current_id = n_creatures + n_candies
    /\ \E seeds \in [1..n_creatures -> ParentCreatures(max_energy)] :
          LET all == 1..(n_creatures + n_candies)
              start == [a \in all |-> IF a <= n_creatures THEN seeds[a] ELSE Candy]
          IN /\ agents = [a \in all |->
                            IF a <= n_creatures THEN DayEnd(seeds[a], 2)
                            ELSE [Candy EXCEPT !.eaten = TRUE]]
             /\ model_vars = <<ModelRow(start, all)>>
    /\ schedule = 1..(n_creatures + n_candies)
    /\ space = 1..(n_creatures + n_candies)
    /\ pc = "evolve"
    /\ agent_keys = <<>>
    /\ stage = 0
    /\ idx = 0
    /\ streak = [a \in 1..n_creatures |-> 0]
    /\ NoBatch
    /\ draws = NoDraws
    /\ NoGeometry

EvolveParents == evolve(GaussDraws, SeedCreatures(max_energy))

NextCross == EvolveParents \/ RemoveCandies

SpecCross == InitCross /\ [][NextCross]_vars

\* ------------------------------------------------------------ Creature.move
MaxMoves == 1          \* moves made by the creature that is followed

Width == 100               \* the constructor's width
Height == 100              \* the constructor's height
NaN == -1000000            \* a coordinate that is not a number

\* the positions random_pos() gives the followed creature and the candy
Positions ==
    {<<10, 10>>, <<20, 10>>, <<90, 10>>, <<13, 14>>, <<74, 58>>, <<10, 60>>}
MoverSpeeds == {5, 45}
MoverViews == {100}

IsSquare(n) == \E k \in 0..n : k * k = n
Sqrt(n) == CHOOSE k \in 0..n : k * k = n

\* np.cos and np.sin of an angle given in units of pi/2
Cos(t) == IF t % 4 = 0 THEN 1 ELSE IF t % 4 = 2 THEN -1 ELSE 0
Sin(t) == IF t % 4 = 1 THEN 1 ELSE IF t % 4 = 3 THEN -1 ELSE 0

Abs(n) == IF n < 0 THEN -n ELSE n
Min(a, b) == IF a < b THEN a ELSE b

\* ContinuousSpace.torus_adj: a point that is not a number is not out of
\* bounds and is returned as it is
torus_adj(q) ==
    IF q[1] = NaN \/ q[2] = NaN THEN q ELSE <<q[1] % Width, q[2] % Height>>

\* ContinuousSpace.get_distance on the torus, squared
get_distance2(p, q) ==
    LET dx == Min(Abs(p[1] - q[1]), Width - Abs(p[1] - q[1]))
        dy == Min(Abs(p[2] - q[2]), Height - Abs(p[2] - q[2]))
    IN dx * dx + dy * dy

\* the distance along the direct line, squared
direct_distance2(p, q) ==
    (p[1] - q[1]) * (p[1] - q[1]) + (p[2] - q[2]) * (p[2] - q[2])

\* the square roots and the quotients of the food branch of move() are whole
Representable(p, f, r) ==
    LET x == f[1] - p[1]
        y == f[2] - p[2]
    IN /\ IsSquare(x * x + y * y)
       /\ Sqrt(x * x + y * y) # 0 =>
            LET n1 == Sqrt(x * x + y * y)
                x1 == (x * r) \div n1
            IN /\ (x * r) % n1 = 0
               /\ IsSquare(x1 * x1 + y * y)
               /\ Sqrt(x1 * x1 + y * y) # 0
               /\ (y * r) % Sqrt(x1 * x1 + y * y) = 0

\* move(), the food branch: the vector added to the position.  p: self.pos,
\* f: food.pos, r: speed, d: d_theta in units of pi/2.  With p = f the
\* quotient r / np.sqrt(0) is inf and 0 * inf is not a number
heading_to_food(p, f, r, d) ==
    LET x == f[1] - p[1]
        y == f[2] - p[2]
        n1 == Sqrt(x * x + y * y)
    IN IF n1 = 0 THEN <<NaN, NaN>>
       ELSE LET x1 == (x * r) \div n1
                y1 == (y * r) \div Sqrt(x1 * x1 + y * y)
                x2 == x1 * Cos(d) - y1 * Sin(d)
                y2 == x2 * Sin(d) + y1 * Cos(d)
            IN <<x2, y2>>

\* move(), the branch without food: theta in units of pi/2
wandering(r, theta) == <<r * Cos(theta), r * Sin(theta)>>

\* new_pos
Displaced(p, v) ==
    IF v[1] = NaN \/ v[2] = NaN THEN <<NaN, NaN>> ELSE <<p[1] + v[1], p[2] + v[2]>>

\* find_candy(): a candy is sensed within view_range on the torus
Senses(c, f) ==
    IF f = NoFood THEN TRUE
    ELSE get_distance2(c.pos, f) <= c.view_range * c.view_range

\* a creature and the candy it senses, or none
InitMove ==
    /\ day = 1
    /\ running = TRUE
    /\ last_day = 2
    /\ n_creatures = 1
    /\ n_candies = 1
    /\ max_energy \in EnergyValues
    /\ current_id = 0
    /\ agents = <<>>
    /\ schedule = {}
    /\ space = {}
    /\ model_vars = <<>>
    /\ pc = "stage"
    /\ agent_keys = <<>>
    /\ stage = 2
    /\ idx = 0
    /\ streak = <<>>
    /\ NoBatch
    /\ draws = NoDraws
    /\ mover \in {[pos |-> p, speed |-> r, focus_angle |-> f, view_range |-> v,
                   done_steps |-> 0] :
                     p \in Positions, r \in MoverSpeeds, f \in FocusValues,
                     v \in MoverViews}
    /\ sensed \in Positions \cup {NoFood}
    /\ Senses(mover, sensed)
    /\ moved = [food |-> FALSE]

\* Creature.move of the followed creature.  The draws d_theta and theta are
\* whole multiples of pi/2; moving_angle is not kept, so that theta is any of
\* them.
Move ==
    /\ mover.done_steps < MaxMoves
    /\ mover.pos[1] # NaN
    /\ IF sensed # NoFood
         THEN /\ Representable(mover.pos, sensed, mover.speed)
              /\ \E d \in (-Abs(mover.focus_angle))..Abs(mover.focus_angle) :
                   LET v == heading_to_food(mover.pos, sensed, mover.speed, d)
                   IN /\ mover' = move([mover EXCEPT
                                           !.pos = torus_adj(Displaced(@, v))])
                      /\ moved' = [food |-> TRUE, x |-> v[1], y |-> v[2],
                                   d_theta |-> d]
         ELSE \E theta \in 0..3 :
                 LET v == wandering(mover.speed, theta)
                 IN /\ mover' = move([mover EXCEPT
                                         !.pos = torus_adj(Displaced(@, v))])
                    /\ moved' = [food |-> FALSE, x |-> v[1], y |-> v[2],
                                 d_theta |-> 0]
    /\ UNCHANGED <<day, running, last_day, n_creatures, n_candies, max_energy,
                   current_id, agents, schedule, space, model_vars, pc,
                   agent_keys, stage, idx, streak, sensed, draws>>
    /\ UNCHANGED batch_vars

NextMove == Move

SpecMove == InitMove /\ [][NextMove]_vars

\* ------------------------------------------------------------ avg_results.py
MaxIterations == 3     \* iterations of a batch range over 1..MaxIterations
MaxCount == 2          \* a table's final creature count ranges over 0..MaxCount

\* the values a variable parameter is given
ParamValues == {1, 2}

\* the variable_params of a batch: one or two parameters, the first with one
\* or more values
VariableParams ==
    {<<S>> : S \in (SUBSET ParamValues) \ {{}}}
    \cup {<<S, {1}>> : S \in (SUBSET ParamValues) \ {{}}}

\* the keys of the collector of a batch: the values of the variable
\* parameters, then the number of the iteration
RunKeys(params, iterations) ==
    IF Len(params) = 1
      THEN {<<a, i>> : a \in params[1], i \in 0..(iterations - 1)}
      ELSE {<<a, b, i>> : a \in params[1], b \in params[2],
                          i \in 0..(iterations - 1)}

\* Python's tup[:k]
Slice(tup, k) ==
    IF k >= 0
      THEN SubSeq(tup, 1, IF k < Len(tup) THEN k ELSE Len(tup))
      ELSE SubSeq(tup, 1, IF Len(tup) + k > 0 THEN Len(tup) + k ELSE 0)

\* [item for i, item in enumerate(tup) if i < k]
Start(tup, k) ==
    SubSeq(tup, 1, IF k <= 0 THEN 0 ELSE IF k < Len(tup) THEN k ELSE Len(tup))

\* the order of Python lists, which tuples_starts.sort() sorts by
LexLess(a, b) ==
    \E i \in 1..Len(b) :
        /\ \A j \in 1..(i - 1) : j <= Len(a) /\ a[j] = b[j]
        /\ (i > Len(a) \/ a[i] < b[i])

\* group_tuples_by_start: unique start -> the tuples whose slice is that start
group_tuples_by_start(list_of_tuples, start_length) ==
    [u \in {Start(tup, start_length) : tup \in list_of_tuples} |->
        {tup \in list_of_tuples : Slice(tup, start_length) = u}]

\* np.mean over the tables of a group, kept as the sum and the count
Mean(result, items) == [sum |-> Sum(result, items), n |-> Cardinality(items)]

\* the prefix length avg_model_results groups by: len(variable_params) is
\* overwritten with the number of runs less two
start_length_of(result, params) == Cardinality(DOMAIN result) - 2

\* avg_model_results.  A table is kept as the last cell of its Creatures
\* column.  The groups are visited in the sorted order of their starts: a
\* group with no table to average, or a start shorter than the parameters,
\* raises; a later group overwrites an earlier one under the same KeyTuple.
avg_model_results(result, params, ignore) ==
    LET grouped == group_tuples_by_start(DOMAIN result, start_length_of(result, params))
        lis(u) == {item \in grouped[u] : ~ignore \/ result[item] > 0}
        KeyTuple(u) == SubSeq(u, 1, Len(params))
        Written(k) ==
            CHOOSE u \in DOMAIN grouped :
                /\ KeyTuple(u) = k
                /\ \A w \in DOMAIN grouped :
                      (KeyTuple(w) = k /\ w # u) => LexLess(w, u)
    IN IF \E u \in DOMAIN grouped : lis(u) = {} \/ Len(u) < Len(params)
         THEN [status |-> "raised"]
         ELSE [status |-> "returned",
               tables |-> [k \in {KeyTuple(u) : u \in DOMAIN grouped} |->
                              Mean(result, lis(Written(k)))]]

\* a batch has been run: its collector holds one table a run
InitAvg ==
    /\ day = 0
    /\ running = TRUE
    /\ last_day = 1
    /\ n_creatures = 0
    /\ n_candies = 0
    /\ max_energy \in EnergyValues
    /\ current_id = 0
    /\ agents = <<>>
    /\ schedule = {}
    /\ space = {}
    /\ model_vars = <<>>
    /\ pc = "idle"
    /\ agent_keys = <<>>
    /\ stage = 0
    /\ idx = 0
    /\ streak = <<>>
    /\ variable_params \in VariableParams
    /\ ignore_dead_populations \in BOOLEAN
    /\ \E iterations \in 1..MaxIterations :
          model_collector_result \in
              [RunKeys(variable_params, iterations) -> 0..MaxCount]
    /\ avg_model_data = [status |-> "pending"]
    /\ draws = NoDraws
    /\ NoGeometry

\* run_in_background: avg_model_results applied to the collector
Average ==
    /\ avg_model_data.status = "pending"
    /\ avg_model_data' = avg_model_results(model_collector_result,
                                           variable_params,
                                           ignore_dead_populations)
    /\ UNCHANGED <<day, running, last_day, n_creatures, n_candies, max_energy,
                   current_id, agents, schedule, space, model_vars, pc,
                   agent_keys, stage, idx, streak, model_collector_result,
                   variable_params, ignore_dead_populations, draws>>
    /\ UNCHANGED geometry_vars

NextAvg == Average

SpecAvg == InitAvg /\ [][NextAvg]_vars

\* ------------------------------------------------------------------ claims
Quarters == {0, PenaltyStep, 2 * PenaltyStep, 3 * PenaltyStep}

\* the tick of the running compete stage, counted from 1
Tick == stage - 1

\* the creatures the running stage has already invoked
Invoked == {agent_keys[j] : j \in 1..(idx - 1)}

\* C1: in every reachable state every live creature has eaten 0, 1 or 2
\* candies; no compete tick raises the count above 2.
C1_EatenCandiesAtMostTwo ==
    \A a \in creatures : agents[a].eaten_candies \in {0, 1, 2}

\* a creature that had its two candies before the running tick was invoked
\* in that tick
C1_Witness ==
    /\ pc = "stage"
    /\ \E a \in Invoked :
          /\ agents[a].eaten_candies = 2
          /\ agents[a].moment_of_second_consumption < Tick

\* C2: every live creature's penalty is in [0, 1]; after evolve() it is one
\* of 0, 0.25, 0.5, 0.75, strictly below 1.
C2_PenaltyBelowOne ==
    \A a \in creatures :
        /\ agents[a].penalty >= 0
        /\ agents[a].penalty < Unit
        /\ agents[a].penalty \in Quarters

\* a creature left alive by evolve() with the penalty 0.75
C2_Witness ==
    /\ pc = "remove_candies"
    /\ \E a \in creatures : agents[a].penalty = 3 * PenaltyStep

\* C3: a step() call made while running adds one to day and returns, with
\* running true iff day < max_days, whatever the population does, so that the
\* driver's loop ends after max_days calls.
C3_RunningUntilLastDay ==
    /\ [][(pc = "idle" /\ running) => (day' = day + 1 /\ pc' # "raised")]_vars
    /\ []((pc = "idle" /\ day >= 1 /\ day <= last_day) =>
             (running <=> day < last_day))

\* C4: a step() call made when running is false changes neither the day, nor
\* the live agents, nor an agent's fields, nor the collected rows.
C4_HaltedStepChangesNothing ==
    [][(pc = "idle" /\ ~running) =>
          UNCHANGED <<day, schedule, agents, model_vars>>]_vars

\* C5: every step() call made while running runs the stages and evolve(),
\* the call that reaches max_days included; with n_creatures = 1,
\* n_candies = 0, max_days = 1 the creature is not live when step() returns.
C5_LastDayIsEvolved ==
    /\ [][(pc = "idle" /\ running /\ pc' # "raised") => pc' = "stage"]_vars
    /\ [](/\ n_creatures = 1 /\ n_candies = 0 /\ last_day = 1
          /\ pc = "idle" /\ day = 1
          => creatures = {})

\* C6: no candy is live after construction; while the stages and evolve() run
\* the live candies are the n_candies spawned by this call; no candy is live
\* when a step() call has returned.
C6_CandiesOfTheDayOnly ==
    /\ day = 0 => candies = {}
    /\ pc \in {"stage", "evolve"} =>
          /\ Cardinality(candies) = n_candies
          /\ candies = (current_id - n_candies + 1)..current_id
    /\ pc = "idle" => candies = {}

\* C7: after a step() the space holds exactly the live agents, and find_candy
\* never returns a candy of an earlier day.
C7_SpaceHoldsLiveAgentsOnly ==
    /\ pc = "idle" => space = schedule
    /\ pc = "stage" => find_candy \subseteq {None} \cup schedule

\* C8: evolve() removes every creature that ate nothing, keeps every creature
\* that ate two candies and sets its penalty to 0; two creatures that both
\* ate two candies leave four live creatures.
C8_EvolveOutcome ==
    [][pc = "evolve" =>
          /\ \A a \in creatures :
                /\ agents[a].eaten_candies = 0 => a \notin schedule'
                /\ agents[a].eaten_candies = 2 =>
                      a \in schedule' /\ agents'[a].penalty = 0
          /\ (/\ Cardinality(creatures) = 2
              /\ \A a \in creatures : agents[a].eaten_candies = 2)
                => Cardinality(CreaturesOf(agents', schedule')) = 4]_vars

\* evolve() has returned on day 1 of a run seeded with two creatures: the two
\* are parents with penalty 0 and four creatures are live
C8_Witness ==
    /\ pc = "remove_candies"
    /\ day = 1
    /\ n_creatures = 2
    /\ \A a \in 1..2 :
          a \in creatures /\ agents[a].eaten_candies = 2 /\ agents[a].penalty = 0
    /\ Cardinality(creatures) = 4

\* C9: after k consecutive one-candy days (since birth or the last two-candy
\* day) a live creature's penalty is 0.25 * k, k <= 3; the 4th removes it; a
\* two-candy day resets the penalty to 0.
C9_PenaltyCountsOneCandyDays ==
    \A a \in creatures :
        /\ streak[a] \in 0..3
        /\ agents[a].penalty = streak[a] * PenaltyStep

\* a creature alive after its third one-candy day in a row
C9_Witness ==
    \E a \in creatures : streak[a] = 3 /\ agents[a].penalty = 3 * PenaltyStep

\* the offspring evolve() adds for k parents
Arity(k) ==
    IF k = 0 THEN 0
    ELSE IF k = 1 THEN 1
    ELSE IF k % 2 = 0 THEN k
    ELSE k + 1

\* C10: with k creatures that ate two candies evolve() adds 0, 1, k (k even)
\* or k + 1 (k odd, k >= 3) creatures and removes none of the k.
C10_OffspringCount ==
    [][pc = "evolve" =>
          LET parents == {a \in creatures : agents[a].eaten_candies = 2}
              born == CreaturesOf(agents', schedule') \ DOMAIN agents
          IN /\ Cardinality(born) = Arity(Cardinality(parents))
             /\ parents \subseteq schedule']_vars

\* evolve() has returned with three parents and their four offspring
C10_Witness ==
    /\ pc = "remove_candies"
    /\ Cardinality({a \in creatures : agents[a].eaten_candies = 2}) = 3
    /\ Cardinality({a \in creatures : a > n_creatures + n_candies}) = 4

\* C11: in every collected row the counts of the creatures with 0, 1 and 2
\* eaten candies sum to the creature count of the same row.
C11_EaterCountsSumToCreatures ==
    \A i \in 1..Len(model_vars) :
        model_vars[i].ZeroEaters + model_vars[i].OneEaters + model_vars[i].TwoEaters
            = model_vars[i].Creatures

\* a row collected with a newborn, a one-candy survivor and a parent alive
C11_Witness ==
    \E i \in 1..Len(model_vars) :
        /\ model_vars[i].ZeroEaters > 0
        /\ model_vars[i].OneEaters > 0
        /\ model_vars[i].TwoEaters > 0

\* C12: a step() call that collects while no creature is alive raises no
\* error: it appends a row that reports zero creatures, and the run goes on
\* to the day on which running becomes false.
C12_EmptyPopulationIsReported ==
    [][(pc = "idle" /\ creatures = {}) =>
          /\ pc' # "raised"
          /\ Len(model_vars') = Len(model_vars) + 1
          /\ model_vars'[Len(model_vars')].Creatures = 0
          /\ running' = (day' < last_day)]_vars

\* C13: the row of a day is sampled after the day's stages and before
\* evolve(): when evolve() is about to run, the latest row holds the creature
\* count and the eaten-candy counts of the population as the stages left it.
C13_RowDescribesTheDay ==
    pc = "evolve" =>
        LET row == model_vars[Len(model_vars)]
            now == ModelRow(agents, schedule)
        IN /\ Len(model_vars) = day
           /\ row.Creatures = now.Creatures
           /\ row.ZeroEaters = now.ZeroEaters
           /\ row.OneEaters = now.OneEaters
           /\ row.TwoEaters = now.TwoEaters

\* C14: the last stage of a day is the report stage, invoked once on every
\* live creature: when evolve() is about to run, a creature that lived through
\* the day has its age counted (a seeded creature's age is the day) and its
\* terminal energy recorded in energy_lost (fewer than two candies) or in
\* energy_of_happiness (two candies).
C14_ReportClosesTheDay ==
    /\ (pc = "stage" /\ stage = Len(model_stages)) =>
          model_stages[stage] = "stage_2_report"
    /\ pc = "evolve" =>
          \A a \in creatures :
              /\ agents[a].age >= 1
              /\ a <= n_creatures => agents[a].age = day
              /\ agents[a].eaten_candies < 2 =>
                    agents[a].energy_lost = agents[a].energy
              /\ agents[a].eaten_candies = 2 =>
                    agents[a].energy_of_happiness = agents[a].energy

\* C15: max_steps_per_day is an option of the constructor and a run
\* constructed with max_steps_per_day = m has m compete stages a day, so that
\* no creature ends a day with done_steps above m.
C15_StepsPerDayIsAnOption ==
    /\ "max_steps_per_day" \in ConstructorOptions
    /\ \A m \in 1..CompeteStages :
          /\ Len(model_stages) = 1 + m
          /\ pc = "evolve" => \A a \in creatures : agents[a].done_steps <= m

\* C16: in every stage each live creature is invoked once, and the order of
\* a stage is drawn afresh: when a stage is about to end with two or more
\* creatures scheduled, the next stage can visit them in another order.
C16_OrderDrawnPerStage ==
    pc = "stage" =>
       /\ {agent_keys[i] : i \in 1..Len(agent_keys)} = creatures
       /\ Len(agent_keys) = Cardinality(creatures)
       /\ (idx = Len(agent_keys) /\ stage < Len(model_stages) /\ Len(agent_keys) >= 2)
             => ENABLED (Next /\ agent_keys' # agent_keys)

\* C17: avg_model_results returns one table for each combination of the
\* variable parameters' values (the first len(variable_params) entries of the
\* run keys), the mean over the iterations of the combination, the dead ones
\* left out under ignore_dead_populations.  Stated for the batches in which
\* every combination has an iteration that enters its mean.
C17_MeanPerCombination ==
    avg_model_data.status # "pending" =>
        LET n == Len(variable_params)
            keys == DOMAIN model_collector_result
            combinations == {SubSeq(item, 1, n) : item \in keys}
            entering(k) ==
                {item \in keys :
                    /\ SubSeq(item, 1, n) = k
                    /\ ignore_dead_populations => model_collector_result[item] > 0}
        IN (\A k \in combinations : entering(k) # {}) =>
              /\ avg_model_data.status = "returned"
              /\ DOMAIN avg_model_data.tables = combinations
              /\ \A k \in combinations :
                    avg_model_data.tables[k].sum * Cardinality(entering(k))
                      = Sum(model_collector_result, entering(k))
                          * avg_model_data.tables[k].n

\* the compete ticks of the day in which creature a has been invoked
TicksSeen(a) ==
    IF pc = "stage"
      THEN (stage - 2) + (IF a \in Invoked THEN 1 ELSE 0)
      ELSE CompeteStages

FreshForTheDay(d, p) ==
    /\ d.energy * Unit = (Unit - p) * max_energy
    /\ d.eaten_candies = 0
    /\ d.done_steps = 0
    /\ d.energy_used_for_movement = 0
    /\ d.energy_spent_on_view_range = 0
    /\ d.energy_spent_on_focus_angle = 0
    /\ d.moment_of_first_consumption = None
    /\ d.moment_of_second_consumption = None

\* C19: prepare_for_new_day leaves a creature with energy
\* (1 - penalty) * max_energy and its per-day fields reset, its genome, penalty
\* and age as they were; when the first compete stage begins every live
\* creature, survivor or newborn, is in that state.
C19_DayStartsReset ==
    /\ [][(pc = "stage" /\ stage = 1) =>
             LET a == agent_keys[idx]
                 c == agents[a]
                 d == agents'[a]
             IN /\ FreshForTheDay(d, c.penalty)
                /\ d.penalty = c.penalty
                /\ d.age = c.age
                /\ d.speed = c.speed
                /\ d.focus_angle = c.focus_angle
                /\ d.view_range = c.view_range
                /\ d.mut_rate = c.mut_rate]_vars
    /\ []((pc = "stage" /\ stage = 2 /\ idx = 1) =>
             \A a \in creatures : FreshForTheDay(agents[a], agents[a].penalty))

\* the first compete stage of a day begins with a penalised survivor among
\* the live creatures, its energy below max_energy
C19_Witness ==
    /\ pc = "stage" /\ stage = 2 /\ idx = 1
    /\ \E a \in creatures :
          /\ agents[a].penalty > 0
          /\ agents[a].energy < max_energy
          /\ agents[a].done_steps = 0

\* the candies whose eaten flag the step sets
NewlyEaten ==
    {f \in DOMAIN agents :
        agents[f].agent_type = "Candy" /\ ~agents[f].eaten /\ agents'[f].eaten}

\* C20: a creature that eats in a compete tick sets the eaten flag of one
\* candy, adds one to eaten_candies and writes done_steps to the first
\* consumption moment if it is unset, else to the second; so the first moment
\* is set iff eaten_candies >= 1, the second iff eaten_candies = 2, and the
\* first is strictly below the second.
C20_ConsumptionMoments ==
    /\ [][(pc = "stage" /\ stage >= 2) =>
             LET a == agent_keys[idx]
                 c == agents[a]
                 d == agents'[a]
             IN IF d.eaten_candies # c.eaten_candies
                  THEN /\ d.eaten_candies = c.eaten_candies + 1
                       /\ Cardinality(NewlyEaten) = 1
                       /\ IF c.moment_of_first_consumption = None
                            THEN /\ d.moment_of_first_consumption = d.done_steps
                                 /\ d.moment_of_second_consumption = None
                            ELSE /\ d.moment_of_first_consumption
                                       = c.moment_of_first_consumption
                                 /\ d.moment_of_second_consumption = d.done_steps
                  ELSE /\ NewlyEaten = {}
                       /\ d.moment_of_first_consumption = c.moment_of_first_consumption
                       /\ d.moment_of_second_consumption
                             = c.moment_of_second_consumption]_vars
    /\ [](\A a \in creatures :
             /\ agents[a].moment_of_first_consumption # None
                   <=> agents[a].eaten_candies >= 1
             /\ agents[a].moment_of_second_consumption # None
                   <=> agents[a].eaten_candies = 2
             /\ agents[a].eaten_candies = 2 =>
                   agents[a].moment_of_first_consumption
                      < agents[a].moment_of_second_consumption)

\* a creature that has eaten its second candy, in a later tick than its first
C20_Witness ==
    \E a \in creatures :
        /\ agents[a].eaten_candies = 2
        /\ agents[a].moment_of_first_consumption >= 1
        /\ agents[a].moment_of_second_consumption
              > agents[a].moment_of_first_consumption

\* C21: every acting tick adds speed squared to energy_used_for_movement,
\* 5 * view_range to energy_spent_on_view_range and 1 / tan(focus_angle / 2)
\* to energy_spent_on_focus_angle: after n acting ticks of a day each bucket
\* is n times its own term.
C21_BucketsHoldTheirOwnTerm ==
    ((pc = "stage" /\ stage >= 2) \/ pc = "evolve") =>
        \A a \in creatures :
            LET c == agents[a]
            IN /\ c.energy_used_for_movement = c.done_steps * c.speed * c.speed
               /\ c.energy_spent_on_view_range
                     = c.done_steps * ViewCoefficient * c.view_range
               /\ c.energy_spent_on_focus_angle
                     = c.done_steps * CotHalf(c.focus_angle)

\* evolve() is about to clone creature a, the only parent, whose mut_rate is
\* not zero
LoneParent(a) ==
    /\ pc = "evolve"
    /\ {b \in creatures : IsParent(agents[b])} = {a}
    /\ agents[a].mut_rate # 0

\* the clone of a lone parent can differ from it in each of the three genes
\* Creature.mutate writes
OtherGenesPerturbed ==
    \A a \in creatures :
        LoneParent(a) =>
            /\ ENABLED (NextCross /\ agents'[current_id + 1].speed # agents[a].speed)
            /\ ENABLED (NextCross /\ agents'[current_id + 1].focus_angle
                                        # agents[a].focus_angle)
            /\ ENABLED (NextCross /\ agents'[current_id + 1].view_range
                                        # agents[a].view_range)

\* C22: mutation perturbs each of the four genes of an offspring: the clone
\* of a lone parent can differ from its parent in speed, in focus_angle, in
\* view_range and also in mut_rate.
C22_MutationPerturbsEveryGene ==
    /\ OtherGenesPerturbed
    /\ \A a \in creatures :
          LoneParent(a) =>
              ENABLED (NextCross /\ agents'[current_id + 1].mut_rate
                                       # agents[a].mut_rate)

\* the four genes of a creature
Genes(c) ==
    [speed |-> c.speed, focus_angle |-> c.focus_angle,
     view_range |-> c.view_range, mut_rate |-> c.mut_rate]

\* mix * p1 + (1 - mix) * p2, gene by gene
Blended(m, p1, p2) ==
    [speed |-> Blend(m, p1.speed, p2.speed),
     focus_angle |-> Blend(m, p1.focus_angle, p2.focus_angle),
     view_range |-> Blend(m, p1.view_range, p2.view_range),
     mut_rate |-> Blend(m, p1.mut_rate, p2.mut_rate)]

\* no gene of the genome is exactly 0
NoZeroGene(genes) ==
    /\ genes.speed # 0
    /\ genes.focus_angle # 0
    /\ genes.view_range # 0
    /\ genes.mut_rate # 0

\* the offspring of an evolve() call whose genomes before mutation satisfy Q
\* are the mutations of the blends of their parents (of the lone parent's
\* genome, for a clone)
BlendsWhere(Q(_)) ==
    pc = "evolve" =>
        LET d == draws'
            p == d.parents
        IN /\ Len(p) = 1 /\ Q(Genes(agents[p[1]])) =>
                Genes(agents'[current_id + 1])
                    = mutate(Genes(agents[p[1]]), d.gauss)
           /\ \A i \in 1..Len(d.pairs) :
                LET p1 == agents[d.pairs[i][1]]
                    p2 == agents[d.pairs[i][2]]
                IN /\ Q(Blended(d.mix, p1, p2)) =>
                        Genes(agents'[current_id + 2 * i - 1])
                            = mutate(Blended(d.mix, p1, p2), d.gauss)
                   /\ Q(Blended(d.mix, p2, p1)) =>
                        Genes(agents'[current_id + 2 * i])
                            = mutate(Blended(d.mix, p2, p1), d.gauss)

AnyGenome(genes) == TRUE

\* the blend rule holds whenever no blended or cloned gene is exactly 0
BlendsOfNonZeroGenes == [][BlendsWhere(NoZeroGene)]_vars

\* C23: with one mix per pair, offspring A is mix * p1 + (1 - mix) * p2 and
\* offspring B is mix * p2 + (1 - mix) * p1 in each of the four genes before
\* mutation, and a clone has its parent's genes before mutation; for every
\* gene value, a blended or cloned value of exactly 0 included.
C23_OffspringGenesAreBlends == [][BlendsWhere(AnyGenome)]_vars

\* C24: with two or more parents in shuffled order evolve() crosses the
\* parents (1,2), (3,4), ... of that order and, when their number is odd, the
\* last parent with one of the others; every parent is in a crossover and no
\* crossover has one creature as both of its parents.
C24_ParentsArePaired ==
    LET p == draws.parents
        q == draws.pairs
        k == Len(p)
    IN (pc = "remove_candies" /\ k >= 2) =>
          /\ Len(q) = (k + 1) \div 2
          /\ \A i \in 1..(k \div 2) : q[i] = <<p[2 * i - 1], p[2 * i]>>
          /\ k % 2 = 1 =>
                /\ q[Len(q)][1] = p[k]
                /\ q[Len(q)][2] \in {p[j] : j \in 1..(k - 1)}
          /\ \A j \in 1..k : \E i \in 1..Len(q) : p[j] \in {q[i][1], q[i][2]}
          /\ \A i \in 1..Len(q) : q[i][1] # q[i][2]

\* evolve() has crossed three parents: the first two, then the third with
\* one of them
C24_Witness ==
    /\ pc = "remove_candies"
    /\ Len(draws.parents) = 3
    /\ draws.pairs[2][1] = draws.parents[3]
    /\ current_id = Cardinality(DOMAIN agents)

\* the followed creature moves towards a candy it senses at another position,
\* at least speed away on the torus, with d_theta = 0
StraightToFood ==
    /\ sensed # NoFood
    /\ sensed # mover.pos
    /\ mover'.done_steps = mover.done_steps + 1
    /\ moved'.d_theta = 0
    /\ get_distance2(mover.pos, sensed) >= mover.speed * mover.speed

\* the candy is nearer across an edge of the torus than along the direct line
AcrossAnEdge ==
    get_distance2(mover.pos, sensed) < direct_distance2(mover.pos, sensed)

\* the move has brought the creature nearer to the candy on the torus
Nearer ==
    get_distance2(mover'.pos, sensed) < get_distance2(mover.pos, sensed)

\* a candy nearest along the direct line is approached
NearerAlongTheDirectLine ==
    [][(StraightToFood /\ ~AcrossAnEdge) => Nearer]_vars

\* C25: a candy sensed nearer across a wrap-around edge than along the direct
\* line is approached along the shorter path: with no perturbation and the
\* candy at least speed away on the torus, the move strictly decreases the
\* toroidal distance to the candy.
C25_NearerAcrossTheEdge ==
    [][(StraightToFood /\ AcrossAnEdge) => Nearer]_vars

\* C26: when the sensed candy is at the creature's own position move() gives
\* a new position whose coordinates are numbers.
C26_ZeroDistanceIsHandled ==
    [][(sensed # NoFood /\ sensed = mover.pos
           /\ mover'.done_steps = mover.done_steps + 1) =>
          (mover'.pos[1] # NaN /\ mover'.pos[2] # NaN)]_vars

\* the displacement of the move made has the length speed
BySpeed ==
    /\ moved'.x # NaN
    /\ moved'.y # NaN
    /\ moved'.x * moved'.x + moved'.y * moved'.y = mover.speed * mover.speed

\* a creature that senses no candy is displaced by exactly speed
WanderingBySpeed ==
    [][(sensed = NoFood /\ mover'.done_steps = mover.done_steps + 1)
          => BySpeed]_vars

\* C27: a move displaces the creature by a vector of length exactly speed,
\* when it heads to a sensed candy (at another position) as when it wanders.
C27_DisplacedBySpeed ==
    [][(mover'.done_steps = mover.done_steps + 1
           /\ (sensed = NoFood \/ sensed # mover.pos)) => BySpeed]_vars

\* C28: with max_energy > 0 no creature's energy is ever negative: a day
\* starts at (1 - penalty) * max_energy with penalty <= 0.75 and a tick's cost
\* is taken only from an energy strictly above it.
C28_EnergyNeverNegative ==
    max_energy > 0 =>
        \A a \in creatures : agents[a].energy >= 0

\* a penalised creature has acted and is left with less than a tick costs
C28_Witness ==
    /\ max_energy > 0
    /\ \E a \in creatures :
          /\ agents[a].penalty = 3 * PenaltyStep
          /\ agents[a].done_steps >= 1
          /\ agents[a].energy > 0
          /\ agents[a].energy < dE(agents[a])

\* the three terms of a creature's cost of a tick
Terms(c) == {KE(c), VE(c), FE(c)}

\* C29: from prepare_for_new_day to the end of the day, for every creature,
\* the energy and the three buckets add up to (1 - penalty) * max_energy and
\* each bucket is done_steps times a constant of the day.
C29_EnergyIsAccountedFor ==
    ((pc = "stage" /\ stage >= 2) \/ pc = "evolve") =>
        \A a \in creatures :
            LET c == agents[a]
            IN /\ (c.energy + c.energy_used_for_movement
                       + c.energy_spent_on_view_range
                       + c.energy_spent_on_focus_angle) * Unit
                     = (Unit - c.penalty) * max_energy
               /\ \E k \in Terms(c) :
                     c.energy_used_for_movement = c.done_steps * k
               /\ \E k \in Terms(c) :
                     c.energy_spent_on_view_range = c.done_steps * k
               /\ \E k \in Terms(c) :
                     c.energy_spent_on_focus_angle = c.done_steps * k

\* a penalised creature has acted twice in the day
C29_Witness ==
    /\ (pc = "stage" /\ stage >= 2) \/ pc = "evolve"
    /\ \E a \in creatures :
          /\ agents[a].penalty > 0
          /\ agents[a].done_steps = 2
          /\ agents[a].energy_used_for_movement = 2 * KE(agents[a])

\* the candies the running step() call has spawned
CandiesOfTheDay ==
    {f \in DOMAIN agents :
        agents[f].agent_type = "Candy" /\ f > current_id - n_candies}

\* a candy is eaten in a step by one creature only
OneEaterACandy ==
    [][pc = "stage" =>
          \A f \in NewlyEaten :
              Cardinality({a \in creatures :
                  agents'[a].eaten_candies > agents[a].eaten_candies}) = 1]_vars

\* C30: a candy is eaten by one creature at most, and during a day the
\* creatures' eaten_candies add up to the number of the day's spawned candies
\* whose eaten flag is set, which is n_candies at most.
C30_EatenCandiesAreOfTheDay ==
    /\ OneEaterACandy
    /\ []((pc = "stage" /\ stage >= 2) \/ pc = "evolve" =>
            /\ Sum([a \in creatures |-> agents[a].eaten_candies], creatures)
                  = Cardinality({f \in CandiesOfTheDay : agents[f].eaten})
            /\ Sum([a \in creatures |-> agents[a].eaten_candies], creatures)
                  <= n_candies)

====
